---- MODULE Spec2Model ----
(***************************************************************************)
(* ztk: a note graph (Rete), its tag index and top node, the website       *)
(* export, and the link resolution that rewrites link targets into paths   *)
(* relative to the page being generated.                                    *)
(*                                                                          *)
(* Strings are sequences of tokens.  A token is "/" or "." or a name: a    *)
(* non-empty run of characters holding neither "/" nor "." (the names used *)
(* are prefix-free, so token-wise comparison is string comparison).        *)
(* A markdown text is a sequence of items: a text run, a "#tag" token, a   *)
(* heading line, or a link [label](target).                                 *)
(***************************************************************************)
EXTENDS Integers, Sequences, FiniteSets, TLC

VARIABLES
    md,             \* resolve_links: the target of the link in the text
    current_dir,    \* resolve_links: the page being generated
    extension,      \* resolve_links: the page-format extension
    out,            \* resolve_links: the rewritten target, or the exception
    pc,             \* main: where the run is
    files,          \* main: what read_dir returns, a dict in glob order
    required_tags,  \* main: the -t options
    forbidden_tags, \* main: the -T options
    style_path,     \* main: the -s option, given by the text of the file
    site_name,      \* main: the -n option
    nodes,          \* Rete.nodes: a dict, as a sequence of Nodes in dict order 
    title,          \* Rete.title
    style,          \* Rete.style
    tags,           \* Rete.tags: a dict, as a sequence of tag and id-set
    top_node,       \* Rete.top_node: the id of the Node referred to, or None
    pages,          \* the output tree: path -> document written by _export_html
    dirs,           \* the output tree: the directories made
    style_css,      \* the output tree: the text of style/style.css, or None
    ret             \* the last call on the graph: its name, its argument (the
                    \* tag of tag, the tags of strip_tags), what it returned

linkVars == <<md, current_dir, extension, out>>

graphVars == <<pc, files, required_tags, forbidden_tags, style_path, site_name,
               nodes, title,
               style, tags, top_node, pages, dirs, style_css, ret>>

vars == <<linkVars, graphVars>>

----------------------------------------------------------------------------
(* Strings *)

Slash == "/"
Dot == "."

\* the value None of an optional string argument
None == <<"None">>

\* the alphabet link targets are written in
Alphabet == {Slash, Dot, "node", "tag", "foo"}

\* longest link target written by an author
MaxLen == 5

RECURSIVE StringsUpTo(_)
StringsUpTo(n) ==
    IF n = 0 THEN {<<>>}
    ELSE LET shorter == StringsUpTo(n - 1)
         IN  shorter \cup {Append(s, c) : s \in {t \in shorter : Len(t) = n - 1},
                                          c \in Alphabet}

\* s.startswith(p)
StartsWith(s, p) == Len(s) >= Len(p) /\ SubSeq(s, 1, Len(p)) = p

\* s.endswith('/')
EndsWithSlash(s) == Len(s) > 0 /\ s[Len(s)] = Slash

\* c in s
Contains(s, c) == \E i \in 1..Len(s) : s[i] = c

\* s.split('/'): the runs between slashes, empty runs kept
RECURSIVE SplitSlash(_)
SplitSlash(s) ==
    IF s = <<>> THEN << <<>> >>
    ELSE LET rest == SplitSlash(Tail(s))
         IN  IF Head(s) = Slash
             THEN << <<>> >> \o rest
             ELSE << <<Head(s)>> \o Head(rest) >> \o Tail(rest)

\* s.split('/')[-1]
LastSegment(s) == LET segs == SplitSlash(s) IN segs[Len(segs)]

----------------------------------------------------------------------------
(* pathlib and os.path *)

RECURSIVE LeadingSlashes(_)
LeadingSlashes(s) ==
    IF s # <<>> /\ Head(s) = Slash THEN 1 + LeadingSlashes(Tail(s)) ELSE 0

\* the root of a POSIX path: exactly two leading slashes are kept, any
\* other number of them is one
PathRoot(s) ==
    CASE LeadingSlashes(s) = 0 -> <<>>
      [] LeadingSlashes(s) = 2 -> << <<Slash, Slash>> >>
      [] OTHER                 -> << <<Slash>> >>

\* pathlib.Path(s).parts: the root, then the segments that are neither
\* empty nor "."
PathParts(s) ==
    PathRoot(s) \o SelectSeq(SplitSlash(s), LAMBDA c : c # <<>> /\ c # <<Dot>>)

IsRoot(part) == part # <<>> /\ part[1] = Slash

\* (pathlib.Path(a) / b).parts
PathDiv(a, b) ==
    IF PathRoot(b) # <<>> THEN PathParts(b) ELSE PathParts(a) \o PathParts(b)

\* path.parent.parts, of a path given by its parts
ParentParts(parts) ==
    IF parts = <<>> \/ (Len(parts) = 1 /\ IsRoot(parts[1]))
    THEN parts
    ELSE SubSeq(parts, 1, Len(parts) - 1)

\* posixpath.join(a, *p), with the path joined so far
RECURSIVE JoinOnto(_, _)
JoinOnto(path, p) ==
    IF p = <<>> THEN path
    ELSE LET b == Head(p)
         IN  JoinOnto(CASE StartsWith(b, <<Slash>>)           -> b
                        [] path = <<>> \/ EndsWithSlash(path) -> path \o b
                        [] OTHER                              -> path \o <<Slash>> \o b,
                      Tail(p))

\* what a call returns: a value, or the exception it raises
Returned(v) == [raised |-> FALSE, val |-> v]
Raised == [raised |-> TRUE, val |-> <<>>]

\* resolve_links is still to be called
NotCalled == [raised |-> FALSE, val |-> None]

\* os.path.join(*parts): with no argument the call raises TypeError
OsPathJoin(parts) ==
    IF parts = <<>> THEN Raised ELSE Returned(JoinOnto(Head(parts), Tail(parts)))

\* the while loop of resolve_path: drop the common leading parts
RECURSIVE StripCommon(_, _)
StripCommon(path_parts, rel_parts) ==
    IF path_parts # <<>> /\ rel_parts # <<>> /\ path_parts[1] = rel_parts[1]
    THEN StripCommon(Tail(path_parts), Tail(rel_parts))
    ELSE <<path_parts, rel_parts>>

DotDots(n) == [i \in 1..n |-> <<Dot, Dot>>]

\* resolve_path(path, relative_to); relative_to is a Path, given by its parts
resolve_path(path, relative_to) ==
    LET stripped == StripCommon(PathParts(path), ParentParts(relative_to))
    IN  OsPathJoin(DotDots(Len(stripped[2])) \o stripped[1])

\* resolve_links.resolve: the new target of a link matched by the second pass
resolve(path, cur, ext) ==
    LET rel == IF cur # None
               THEN resolve_path(path, PathDiv(<<Slash>>, cur))
               ELSE Returned(path)
    IN  IF rel.raised THEN Raised
        ELSE IF /\ ext # None
                /\ ~EndsWithSlash(rel.val)
                /\ ~Contains(LastSegment(rel.val), Dot)
             THEN Returned(rel.val \o <<Dot>> \o ext)
             ELSE rel

\* the first re.sub of resolve_links: a target holding no slash becomes
\* /node/<target>
SimpleLink(target) ==
    IF target # <<>> /\ ~Contains(target, Slash)
    THEN <<Slash, "node", Slash>> \o target
    ELSE target

\* the second re.sub of resolve_links: a target "/" followed by at least one
\* character is rewritten by resolve
LocalLink(target, cur, ext) ==
    IF Len(target) >= 2 /\ target[1] = Slash
    THEN resolve(target, cur, ext)
    ELSE Returned(target)

\* resolve_links, on the target of one link of the text
resolve_link(target, cur, ext) == LocalLink(SimpleLink(target), cur, ext)

----------------------------------------------------------------------------
(* The pages export_as_website generates *)

html == <<"html">>

NodePage(name) == <<"node", Slash>> \o name \o <<Dot>> \o html
TagPage(tag) == <<"tag", Slash>> \o tag \o <<Dot>> \o html
AllPage == <<"all", Dot>> \o html
TagsPage == <<"tags", Dot>> \o html
IndexPage == <<"index", Dot>> \o html

----------------------------------------------------------------------------
(* Markdown texts *)

Item(k, label, target, n) == [k |-> k, label |-> label, target |-> target, n |-> n]

\* a run of text that holds no tag, no link and no heading
Text(s) == Item("text", <<s>>, <<>>, 0)

\* a line "# <text>" of a note
Heading(text) == Item("heading", text, <<>>, 0)

\* "#<tag>" where TAG_REGEX matches it: not preceded by a non-space
TagTok(tag) == Item("tag", tag, <<>>, 0)

\* [label](target)
Link(label, target) == Item("link", label, target, 0)

\* <small>text</small> and <small>(n)</small>
Small(text) == Item("small", text, <<>>, 0)
SmallCount(n) == Item("small", <<>>, <<>>, n)

Hash == "#"

\* re.sub(TAG_REGEX, r'[\g<0>](/tag/\g<1>)', md)
TagLinks(text) ==
    [i \in 1..Len(text) |->
        IF text[i].k = "tag"
        THEN Link(<<Hash>> \o text[i].label, <<Slash, "tag", Slash>> \o text[i].label)
        ELSE text[i]]

\* the links of a text rewritten one after the other: the text so far, or
\* the exception the first failing link raises
RECURSIVE RewriteLinks(_, _, _, _)
RewriteLinks(done, text, cur, ext) ==
    IF text = <<>> THEN Returned(done)
    ELSE IF Head(text).k # "link"
         THEN RewriteLinks(Append(done, Head(text)), Tail(text), cur, ext)
         ELSE CHOOSE result \in
                  {IF new.raised THEN Raised
                   ELSE RewriteLinks(Append(done, Link(Head(text).label, new.val)),
                                     Tail(text), cur, ext) :
                       new \in {resolve_link(Head(text).target, cur, ext)}} : TRUE

\* resolve_links(md, current_dir, extension)
resolve_links(text, cur, ext) == RewriteLinks(<<>>, text, cur, ext)

----------------------------------------------------------------------------
(* Ordering of strings *)

\* the tokens that ids and tags are made of, in the order of their strings
TokenOrder == <<Dot, "a", "b", "c", "top", "x", "y">>

Rank(token) == CHOOSE i \in 1..Len(TokenOrder) : TokenOrder[i] = token

\* s < t
RECURSIVE LexLess(_, _)
LexLess(s, t) ==
    IF t = <<>> THEN FALSE
    ELSE IF s = <<>> THEN TRUE
    ELSE IF Head(s) = Head(t) THEN LexLess(Tail(s), Tail(t))
    ELSE Rank(Head(s)) < Rank(Head(t))

\* max(S) of a non-empty set of strings
MaxOf(S) == CHOOSE m \in S : \A o \in S : o = m \/ LexLess(o, m)

\* sorted(S, reverse=True)
RECURSIVE SortedDesc(_)
SortedDesc(S) ==
    IF S = {} THEN <<>> ELSE <<MaxOf(S)>> \o SortedDesc(S \ {MaxOf(S)})

\* sorted(S)
RECURSIVE Reversed(_)
Reversed(seq) ==
    IF seq = <<>> THEN <<>> ELSE Append(Reversed(Tail(seq)), Head(seq))

SortedAsc(S) == Reversed(SortedDesc(S))

----------------------------------------------------------------------------
(* Node *)

top == <<"top">>

\* Node._infer_title: the text of the first heading line, or the id
InferTitle(id, content) ==
    IF \E i \in 1..Len(content) : content[i].k = "heading"
    THEN content[CHOOSE i \in 1..Len(content) :
                    /\ content[i].k = "heading"
                    /\ \A j \in 1..(i - 1) : content[j].k # "heading"].label
    ELSE id

\* Node._infer_tags
InferTags(content) ==
    {content[i].label : i \in {j \in 1..Len(content) : content[j].k = "tag"}}

\* Node.__init__
Node(path, content) ==
    [id |-> path, content |-> content,
     title |-> InferTitle(path, content), tags |-> InferTags(content)]

\* Node.matches; main passes both lists, never None
matches(node, required, forbidden) ==
    /\ required \subseteq node.tags
    /\ node.tags \cap forbidden = {}

\* Node.markdown
markdown(node) == node.content

\* Node.as_entry
as_entry(node) == <<Small(node.id), Link(node.title, node.id)>>

RECURSIVE Entries(_)
Entries(nodeSeq) ==
    IF nodeSeq = <<>> THEN <<>>
    ELSE <<Text("- ")>> \o as_entry(Head(nodeSeq)) \o Entries(Tail(nodeSeq))

\* node_list(nodes, title); the title is a text: it may hold a tag
node_list(nodeSeq, heading) ==
    <<Text("# ")>> \o heading \o <<Text("*(generated automatically)*")>>
        \o Entries(nodeSeq)

----------------------------------------------------------------------------
(* Rete *)

\* self.nodes.get(name)
NodeOf(nodeDict, name) ==
    nodeDict[CHOOSE i \in 1..Len(nodeDict) : nodeDict[i].id = name]

Keys(nodeDict) == {nodeDict[i].id : i \in 1..Len(nodeDict)}

\* self.tags[tag]; the tag is a key
IdsOf(tagDict, tag) ==
    tagDict[CHOOSE i \in 1..Len(tagDict) : tagDict[i].tag = tag].ids

TagKeys(tagDict) == {tagDict[i].tag : i \in 1..Len(tagDict)}

\* a variant that starts the set afresh for every note: tags[tag] = {name}
SetDefaultAdd_Overwrite(tagDict, tag, name) ==
    IF tag \in TagKeys(tagDict)
    THEN [i \in 1..Len(tagDict) |->
             IF tagDict[i].tag = tag
             THEN [tag |-> tag, ids |-> {name}]
             ELSE tagDict[i]]
    ELSE Append(tagDict, [tag |-> tag, ids |-> {name}])

\* tags.setdefault(tag, set()).add(name)
SetDefaultAdd(tagDict, tag, name) ==
    IF tag \in TagKeys(tagDict)
    THEN [i \in 1..Len(tagDict) |->
             IF tagDict[i].tag = tag
             THEN [tag |-> tag, ids |-> tagDict[i].ids \cup {name}]
             ELSE tagDict[i]]
    ELSE Append(tagDict, [tag |-> tag, ids |-> {name}])

RECURSIVE AddTags(_, _, _)
AddTags(tagDict, tagSeq, name) ==
    IF tagSeq = <<>> THEN tagDict
    ELSE AddTags(SetDefaultAdd(tagDict, Head(tagSeq), name), Tail(tagSeq), name)

\* Rete._generate_tags; a set of tags is iterated in an order the language
\* leaves open, here the order the tags have in iteration
RECURSIVE GenerateTagsFrom(_, _, _)
GenerateTagsFrom(tagDict, nodeDict, iteration) ==
    IF nodeDict = <<>> THEN tagDict
    ELSE GenerateTagsFrom(
             AddTags(tagDict,
                     SelectSeq(iteration, LAMBDA t : t \in Head(nodeDict).tags),
                     Head(nodeDict).id),
             Tail(nodeDict), iteration)

generate_tags(nodeDict, iteration) == GenerateTagsFrom(<<>>, nodeDict, iteration)

\* min(top_nodes, key=lambda node: node.id): the first of the smallest
RECURSIVE MinById(_, _)
MinById(best, rest) ==
    IF rest = <<>> THEN best
    ELSE MinById(IF LexLess(Head(rest).id, best.id) THEN Head(rest) ELSE best,
                 Tail(rest))

\* a variant that takes the first note tagged top instead of the smallest
infer_top_node_First(nodeDict) ==
    LET top_nodes == SelectSeq(nodeDict, LAMBDA node : top \in node.tags)
    IN  IF top_nodes = <<>> THEN None ELSE Head(top_nodes).id

\* Rete._infer_top_node; the Node is referred to by its id
infer_top_node(nodeDict) ==
    LET top_nodes == SelectSeq(nodeDict, LAMBDA node : top \in node.tags)
    IN  IF top_nodes = <<>> THEN None
        ELSE MinById(Head(top_nodes), Tail(top_nodes)).id

\* Rete.all_nodes
NoNodes == <<Text("# All nodes"), Text("There are no nodes here.")>>

all_nodes(nodeDict) ==
    IF nodeDict = <<>> THEN NoNodes
    ELSE LET order == SortedDesc(Keys(nodeDict))
         IN  node_list([i \in 1..Len(order) |-> NodeOf(nodeDict, order[i])],
                       <<Text("All nodes")>>)

\* Rete.top
top_page(nodeDict, topNode) ==
    IF topNode = None THEN all_nodes(nodeDict)
    ELSE markdown(NodeOf(nodeDict, topNode))

\* Rete.tag; an unknown tag raises KeyError
tag_page(nodeDict, tagDict, tag) ==
    IF tag \notin TagKeys(tagDict) THEN Raised
    ELSE LET order == SortedDesc(IdsOf(tagDict, tag))
         IN  Returned(node_list([i \in 1..Len(order) |-> NodeOf(nodeDict, order[i])],
                                <<TagTok(tag)>>))

\* a variant whose key is the frequency alone
freq_sort_key_FreqOnly(tagDict, item) ==
    [freq |-> item.freq, newest |-> <<>>]

\* Rete.tag_index.freq_sort_key
freq_sort_key(tagDict, item) ==
    [freq |-> item.freq, newest |-> MaxOf(IdsOf(tagDict, item.tag))]

KeyLess(a, b) ==
    \/ a.freq < b.freq
    \/ a.freq = b.freq /\ LexLess(a.newest, b.newest)

\* sorted(items, key=..., reverse=True): descending, and stable
InsertDesc(tagDict, sorted, item) ==
    LET smaller == {i \in 1..Len(sorted) :
                       KeyLess(freq_sort_key(tagDict, sorted[i]),
                               freq_sort_key(tagDict, item))}
        at == IF smaller = {} THEN Len(sorted) + 1
              ELSE CHOOSE i \in smaller : \A j \in smaller : i <= j
    IN  SubSeq(sorted, 1, at - 1) \o <<item>> \o SubSeq(sorted, at, Len(sorted))

RECURSIVE SortByFreq(_, _, _)
SortByFreq(tagDict, sorted, items) ==
    IF items = <<>> THEN sorted
    ELSE SortByFreq(tagDict, InsertDesc(tagDict, sorted, Head(items)), Tail(items))

\* freqs_sorted of Rete.tag_index
freqs_sorted(tagDict) ==
    SortByFreq(tagDict, <<>>,
               [i \in 1..Len(tagDict) |->
                   [tag |-> tagDict[i].tag, freq |-> Cardinality(tagDict[i].ids)]])

RECURSIVE ByFreq(_)
ByFreq(items) ==
    IF items = <<>> THEN <<>>
    ELSE <<TagTok(Head(items).tag), SmallCount(Head(items).freq)>>
             \o ByFreq(Tail(items))

\* Rete.tag_index
tag_index(tagDict) ==
    LET alphabetical == SortedAsc(TagKeys(tagDict))
    IN  <<Text("# Tag index"), Text("*(generated automatically)*"),
          Text("## Alphabetically")>>
        \o [i \in 1..Len(alphabetical) |-> TagTok(alphabetical[i])]
        \o <<Text("## By frequency")>>
        \o ByFreq(freqs_sorted(tagDict))

\* Rete._title
make_title(siteTitle, sub_title) ==
    LET parts == (IF sub_title # None THEN <<sub_title>> ELSE <<>>)
                 \o (IF siteTitle # None THEN <<siteTitle>> ELSE <<>>)
    IN  IF parts = <<>> THEN <<>>
        ELSE IF Len(parts) = 1 THEN parts[1]
        ELSE parts[1] \o <<" - ">> \o parts[2]

\* a variant that ends every bar, the empty one too, with the rule
navigation_bar_AlwaysRule(nodeDict, tagDict) ==
    (IF nodeDict # <<>>
     THEN <<Link(<<"top">>, <<Slash, "index">>), Link(<<"all">>, <<Slash, "all">>)>>
     ELSE <<>>)
    \o (IF tagDict # <<>> THEN <<Link(<<"tags">>, <<Slash, "tags">>)>> ELSE <<>>)
    \o <<Text("---")>>

\* Rete._navigation_bar
navigation_bar(nodeDict, tagDict) ==
    LET elements ==
            (IF nodeDict # <<>>
             THEN <<Link(<<"top">>, <<Slash, "index">>), Link(<<"all">>, <<Slash, "all">>)>>
             ELSE <<>>)
            \o (IF tagDict # <<>> THEN <<Link(<<"tags">>, <<Slash, "tags">>)>> ELSE <<>>)
    IN  IF elements = <<>> THEN <<>> ELSE elements \o <<Text("---")>>

\* md_to_html: the renderer, an outside program; the document it returns
\* is known by what it was given
md_to_html(text, docTitle, styleHref) ==
    [md |-> text, title |-> docTitle, style |-> styleHref]

StyleCss == <<"style", Slash, "style", Dot, "css">>

\* the directories mkdir(parents=True) makes for a page, the root being <<>>
Parents(path) ==
    LET d == ParentParts(PathParts(path))
    IN  {SubSeq(d, 1, n) : n \in 0..Len(d)}

\* Rete._export_html, on the output tree; job: the text, the path, the title
export_html(job, tree, nodeDict, tagDict, siteTitle, siteStyle) ==
    LET made == tree.dirs \cup Parents(job.path)
        text == navigation_bar(nodeDict, tagDict) \o TagLinks(job.md)
        href == IF siteStyle # None
                THEN resolve_path(StyleCss, PathParts(job.path)).val
                ELSE None
    IN  CHOOSE result \in
            {IF resolved.raised
             THEN [pages |-> tree.pages, dirs |-> made, raised |-> TRUE]
             ELSE [pages |-> [p \in DOMAIN tree.pages \cup {job.path} |->
                                 IF p = job.path
                                 THEN md_to_html(resolved.val,
                                                 make_title(siteTitle, job.title),
                                                 href)
                                 ELSE tree.pages[p]],
                   dirs |-> made, raised |-> FALSE] :
                 resolved \in {resolve_links(text, job.path, html)}} : TRUE

\* a variant that writes all.html whether or not there are notes
ExportJobs_AlwaysAll(nodeDict, tagDict, topNode) ==
    [i \in 1..Len(nodeDict) |->
        [md |-> markdown(nodeDict[i]), path |-> NodePage(nodeDict[i].id),
         title |-> nodeDict[i].title]]
    \o << [md |-> all_nodes(nodeDict), path |-> AllPage,
           title |-> <<"All nodes">>] >>
    \o (IF tagDict # <<>>
        THEN [i \in 1..Len(tagDict) |->
                 [md |-> tag_page(nodeDict, tagDict, tagDict[i].tag).val,
                  path |-> TagPage(tagDict[i].tag),
                  title |-> <<Hash>> \o tagDict[i].tag]]
             \o << [md |-> tag_index(tagDict), path |-> TagsPage,
                    title |-> <<"Tag index">>] >>
        ELSE <<>>)
    \o << [md |-> top_page(nodeDict, topNode), path |-> IndexPage, title |-> None] >>

\* the calls of _export_html that export_as_website makes, in their order
ExportJobs(nodeDict, tagDict, topNode) ==
    (IF nodeDict # <<>>
     THEN [i \in 1..Len(nodeDict) |->
              [md |-> markdown(nodeDict[i]), path |-> NodePage(nodeDict[i].id),
               title |-> nodeDict[i].title]]
          \o << [md |-> all_nodes(nodeDict), path |-> AllPage,
                 title |-> <<"All nodes">>] >>
     ELSE <<>>)
    \o (IF tagDict # <<>>
        THEN [i \in 1..Len(tagDict) |->
                 [md |-> tag_page(nodeDict, tagDict, tagDict[i].tag).val,
                  path |-> TagPage(tagDict[i].tag),
                  title |-> <<Hash>> \o tagDict[i].tag]]
             \o << [md |-> tag_index(tagDict), path |-> TagsPage,
                    title |-> <<"Tag index">>] >>
        ELSE <<>>)
    \o << [md |-> top_page(nodeDict, topNode), path |-> IndexPage, title |-> None] >>

\* the calls run one after the other; an exception ends the run
RECURSIVE RunExports(_, _, _, _, _, _)
RunExports(jobs, tree, nodeDict, tagDict, siteTitle, siteStyle) ==
    IF jobs = <<>> THEN tree
    ELSE CHOOSE result \in
             {IF after.raised THEN after
              ELSE RunExports(Tail(jobs), after, nodeDict, tagDict,
                              siteTitle, siteStyle) :
                  after \in {export_html(Head(jobs), tree, nodeDict, tagDict,
                                         siteTitle, siteStyle)}} : TRUE

----------------------------------------------------------------------------
(* The run of main on a directory of notes *)

\* most notes in the input directory
MaxNotes == 2

\* most notes that tags are stripped from
MaxStripped == 1

IdPool == << <<"a">>, <<"b">>, <<"c">> >>

Ids == {IdPool[i] : i \in 1..(IF MaxNotes < Len(IdPool) THEN MaxNotes ELSE Len(IdPool))}

x == <<"x">>

TagPool == {top, x}

\* the orders a set of tags may be iterated in
TagOrders ==
    {o \in [1..Cardinality(TagPool) -> TagPool] :
        \A i, j \in DOMAIN o : i # j => o[i] # o[j]}

\* the texts of the notes
ContentPool ==
    { <<>>,
      <<Heading(<<"Hello">>), TagTok(top), Link(<<"up">>, <<Slash, "node">>)>>,
      <<TagTok(top), TagTok(x)>>,
      <<TagTok(x)>> }

css == <<"body {}">>

\* the command lines: -t, -T, -s, -n (with -I and the output directory)
CommandLines ==
    { [t |-> {}, T |-> {}, s |-> None, n |-> None],
      [t |-> {x}, T |-> {}, s |-> css, n |-> <<"ztk">>],
      [t |-> {}, T |-> {top}, s |-> css, n |-> None] }

\* the directory listings: glob yields the files in any order
Listings ==
    {o \in UNION {[1..k -> Ids] : k \in 0..MaxNotes} :
        \A i, j \in DOMAIN o : i # j => o[i] # o[j]}

\* read_dir(path)
read_dir(listing, contents) ==
    [i \in 1..Len(listing) |-> Node(listing[i], contents[i])]

NoPages == [p \in {} |-> 0]
NoCall == [op |-> "", arg |-> {}, raised |-> FALSE, val |-> <<>>]

LinksIdle ==
    /\ md = <<>>
    /\ current_dir = None
    /\ extension = None
    /\ out = NotCalled

GraphIdle ==
    /\ pc = "idle"
    /\ files = <<>>
    /\ required_tags = {}
    /\ forbidden_tags = {}
    /\ style_path = None
    /\ site_name = None
    /\ nodes = <<>>
    /\ title = None
    /\ style = None
    /\ tags = <<>>
    /\ top_node = None
    /\ pages = NoPages
    /\ dirs = {}
    /\ style_css = None
    /\ ret = NoCall

\* main, at line 248: the options are parsed, the directory is there
Init ==
    /\ LinksIdle
    /\ pc = "main"
    /\ \E listing \in Listings :
         \E contents \in [1..Len(listing) -> ContentPool] :
            files = read_dir(listing, contents)
    /\ \E cl \in CommandLines :
         /\ required_tags = cl.t
         /\ forbidden_tags = cl.T
         /\ style_path = cl.s
         /\ site_name = cl.n
    /\ nodes = <<>>
    /\ title = None
    /\ style = None
    /\ tags = <<>>
    /\ top_node = None
    /\ pages = NoPages
    /\ dirs = {}
    /\ style_css = None
    /\ ret = NoCall

reteVars == <<nodes, title, style, tags, top_node>>
treeVars == <<pages, dirs, style_css>>
mainVars == <<files, required_tags, forbidden_tags, style_path, site_name>>

\* main, lines 249-253: the notes that match the filters
Filter ==
    /\ pc = "main"
    /\ pc' = "filtered"
    /\ nodes' = SelectSeq(files,
                          LAMBDA node : matches(node, required_tags, forbidden_tags))
    /\ files' = <<>>
    /\ UNCHANGED <<required_tags, forbidden_tags, style_path, site_name,
                   title, style, tags, top_node, treeVars, ret>>

\* Rete.__init__, called at line 262
Construct ==
    /\ pc = "filtered"
    /\ pc' = "built"
    /\ title' = site_name
    /\ style' = None
    /\ \E iteration \in TagOrders : tags' = generate_tags(nodes, iteration)
    /\ top_node' = infer_top_node(nodes)
    /\ UNCHANGED <<mainVars, nodes, treeVars, ret>>

\* main, lines 263-264
SetStyle ==
    /\ pc = "built"
    /\ pc' = "ready"
    /\ style' = IF style_path # None THEN style_path ELSE style
    /\ UNCHANGED <<mainVars, nodes, title, tags, top_node, treeVars, ret>>

\* Rete.export_as_website, called at line 266; an exception ends main
ExportAsWebsite ==
    /\ pc = "ready"
    /\ \E jobs \in {ExportJobs(nodes, tags, top_node)} :
       \E tree \in {RunExports(jobs,
                               [pages |-> pages, dirs |-> dirs, raised |-> FALSE],
                               nodes, tags, title, style)} :
       LET styled == ~tree.raised /\ style # None
       IN  /\ pages' = tree.pages
           /\ dirs' = tree.dirs \cup (IF styled THEN {<< <<"style">> >>} ELSE {})
           /\ style_css' = IF styled THEN style ELSE style_css
           /\ ret' = [op |-> "export_as_website", arg |-> {},
                   raised |-> tree.raised, val |-> <<>>]
           /\ pc' = IF tree.raised THEN "crashed" ELSE "done"
    /\ UNCHANGED <<mainVars, reteVars>>

\* A call of top, tag, tag_index or all_nodes is the last step of a run: it
\* leaves the graph as it was, so whatever may follow it may as well happen
\* without it.

\* Rete.top
Top ==
    /\ pc = "ready"
    /\ pc' = "answered"
    /\ ret' = [op |-> "top", arg |-> {}, raised |-> FALSE,
               val |-> top_page(nodes, top_node)]
    /\ UNCHANGED <<mainVars, reteVars, treeVars>>

\* Rete.tag
Tag ==
    /\ pc = "ready"
    /\ pc' = "answered"
    /\ \E tag \in TagPool :
         \E r \in {tag_page(nodes, tags, tag)} :
            ret' = [op |-> "tag", arg |-> {tag}, raised |-> r.raised, val |-> r.val]
    /\ UNCHANGED <<mainVars, reteVars, treeVars>>

\* Rete.tag_index
TagIndex ==
    /\ pc = "ready"
    /\ pc' = "answered"
    /\ ret' = [op |-> "tag_index", arg |-> {}, raised |-> FALSE,
               val |-> tag_index(tags)]
    /\ UNCHANGED <<mainVars, reteVars, treeVars>>

\* Rete.all_nodes
AllNodes ==
    /\ pc = "ready"
    /\ pc' = "answered"
    /\ ret' = [op |-> "all_nodes", arg |-> {}, raised |-> FALSE,
               val |-> all_nodes(nodes)]
    /\ UNCHANGED <<mainVars, reteVars, treeVars>>

\* a variant that toggles the tags: the symmetric difference
strip_tags_Toggle(node, stripped) ==
    [node EXCEPT !.tags = (@ \ stripped) \cup (stripped \ @)]

\* Node.strip_tags(tags): self.tags.difference_update(tags)
strip_tags(node, stripped) == [node EXCEPT !.tags = @ \ stripped]

\* the notes whose tag set is no longer the one their text gives
Stripped(nodeDict) ==
    {i \in 1..Len(nodeDict) : nodeDict[i].tags # InferTags(nodeDict[i].content)}

\* Node.strip_tags, on a note of the graph; it returns None
StripTags ==
    /\ pc = "ready"
    /\ \E i \in 1..Len(nodes) :
         \E stripped \in (SUBSET TagPool) \ {{}} :
            /\ nodes' = [nodes EXCEPT ![i] = strip_tags(@, stripped)]
            /\ ret' = [op |-> "strip_tags", arg |-> stripped, raised |-> FALSE,
                       val |-> <<>>]
    /\ Cardinality(Stripped(nodes')) <= MaxStripped
    /\ UNCHANGED <<pc, mainVars, title, style, tags, top_node, treeVars>>

Next ==
    /\ \/ Filter
       \/ Construct
       \/ SetStyle
       \/ ExportAsWebsite
       \/ Top
       \/ Tag
       \/ TagIndex
       \/ AllNodes
       \/ StripTags
    /\ UNCHANGED linkVars

Spec == Init /\ [][Next]_vars

----------------------------------------------------------------------------
(* Link resolution on its own: every target, seen from every kind of page *)

Targets == StringsUpTo(MaxLen) \ {<<>>}

PagePool == {IndexPage, AllPage, TagsPage, TagPage(<<"foo">>), NodePage(<<"foo">>)}

InitLinks ==
    /\ GraphIdle
    /\ md \in Targets
    /\ current_dir \in PagePool
    /\ extension = html
    /\ out = NotCalled

\* _export_html's call resolve_links(md, path, 'html'), on one link
ResolveLinks ==
    /\ out = NotCalled
    /\ out' = resolve_link(md, current_dir, extension)
    /\ UNCHANGED <<md, current_dir, extension>>

NextLinks == ResolveLinks /\ UNCHANGED graphVars

SpecLinks == InitLinks /\ [][NextLinks]_vars

----------------------------------------------------------------------------
(* What the link claims speak of *)

\* the segments of a path: the runs between slashes, without the empty
\* ones and the "." ones
Segments(s) == SelectSeq(SplitSlash(s), LAMBDA c : c # <<>> /\ c # <<Dot>>)

\* the segments of the directory a page is in
DirSegments(page) ==
    LET segs == Segments(page) IN SubSeq(segs, 1, Len(segs) - 1)

RECURSIVE CommonPrefixLen(_, _)
CommonPrefixLen(a, b) ==
    IF a # <<>> /\ b # <<>> /\ Head(a) = Head(b)
    THEN 1 + CommonPrefixLen(Tail(a), Tail(b))
    ELSE 0

RECURSIVE JoinSlash(_)
JoinSlash(segs) ==
    IF segs = <<>> THEN <<>>
    ELSE IF Len(segs) = 1 THEN Head(segs)
    ELSE Head(segs) \o <<Slash>> \o JoinSlash(Tail(segs))

\* one ".." per segment of the page's directory left after the common
\* prefix, then the segments of the target left after it
Relativized(target, page) ==
    LET t == Segments(target)
        d == DirSegments(page)
        k == CommonPrefixLen(t, d)
    IN  JoinSlash(DotDots(Len(d) - k) \o SubSeq(t, k + 1, Len(t)))

\* the path a reference names when it is followed from a directory
RECURSIVE Follow(_, _)
Follow(dir, segs) ==
    IF segs = <<>> THEN dir
    ELSE IF Head(segs) = <<Dot, Dot>>
         THEN Follow(IF dir = <<>> THEN dir ELSE SubSeq(dir, 1, Len(dir) - 1),
                     Tail(segs))
         ELSE Follow(Append(dir, Head(segs)), Tail(segs))

\* an absolute link target, as the second pass matches it
IsAbsolute(target) == Len(target) >= 2 /\ target[1] = Slash

\* a file name: not empty, no slash, neither "." nor ".."
IsNoteId(s) == s # <<>> /\ ~Contains(s, Slash) /\ s # <<Dot>> /\ s # <<Dot, Dot>>

Called == out # NotCalled

\* C1: every absolute target that is not the page's directory is rewritten
\* to one ".." per remaining directory segment followed by the remaining
\* target segments; /tag/foo seen from node/foo.html is ../tag/foo.html and
\* /node/foo seen from there is foo.html.
C1_Relativized ==
    (Called /\ IsAbsolute(md) /\ Segments(md) # DirSegments(current_dir)) =>
        /\ resolve_path(md, PathDiv(<<Slash>>, current_dir))
               = Returned(Relativized(md, current_dir))
        /\ (md = <<Slash, "tag", Slash, "foo">> /\ current_dir = NodePage(<<"foo">>))
               => out = Returned(<<Dot, Dot, Slash, "tag", Slash, "foo", Dot, "html">>)
        /\ (md = <<Slash, "node", Slash, "foo">> /\ current_dir = NodePage(<<"foo">>))
               => out = Returned(<<"foo", Dot, "html">>)

\* //tag/foo seen from node/foo.html: pathlib roots it at "//", nothing is
\* stripped, and os.path.join starts over at the rooted component
C1_DoubleSlash ==
    /\ Called
    /\ md = <<Slash, Slash, "tag", Slash, "foo">>
    /\ current_dir = NodePage(<<"foo">>)
    /\ out = Returned(<<Slash, Slash, "tag", Slash, "foo", Dot, "html">>)

\* C1, for the targets with a single leading slash (the ones pathlib roots
\* at "/"): this much the code does
C1_SingleRoot ==
    (Called /\ IsAbsolute(md) /\ LeadingSlashes(md) # 2) =>
        C1_Relativized

C1_SingleRootWitness ==
    /\ Called
    /\ md = <<Slash, "tag", Slash, "foo">>
    /\ current_dir = NodePage(<<"foo">>)
    /\ out = Returned(<<Dot, Dot, Slash, "tag", Slash, "foo", Dot, "html">>)

\* C2: a bare link to a note id, on any generated page, is rewritten to a
\* path that names node/<id>.html when followed from the page's directory.
C2_BareLinkReachesNote ==
    (Called /\ IsNoteId(md)) =>
        /\ ~out.raised
        /\ Follow(DirSegments(current_dir), Segments(out.val))
               = Segments(NodePage(md))

\* the note foo.node linked from tag/foo.html: no extension is appended,
\* and the link names node/foo.node, not node/foo.node.html
C2_DottedId ==
    /\ Called
    /\ md = <<"foo", Dot, "node">>
    /\ current_dir = TagPage(<<"foo">>)
    /\ out = Returned(<<Dot, Dot, Slash, "node", Slash, "foo", Dot, "node">>)

\* C2, for the ids that hold no ".": this much the code does
C2_UndottedId ==
    (Called /\ IsNoteId(md) /\ ~Contains(md, Dot)) => C2_BareLinkReachesNote

C2_UndottedIdWitness ==
    /\ Called
    /\ md = <<"foo">>
    /\ current_dir = TagPage(<<"foo">>)
    /\ out = Returned(<<Dot, Dot, Slash, "node", Slash, "foo", Dot, "html">>)

\* C3: a rewritten absolute link has ".<ext>" appended exactly when the
\* target as written does not end with "/" and its final segment holds no
\* "."; /tag/foo gains .html and /tag/foo/ gains nothing.
C3_ExtensionRule ==
    (Called /\ IsAbsolute(md) /\ ~out.raised) =>
        LET rel == resolve_path(md, PathDiv(<<Slash>>, current_dir)).val
            appended == out.val = rel \o <<Dot>> \o extension
            unchanged == out.val = rel
        IN  IF ~EndsWithSlash(md) /\ ~Contains(LastSegment(md), Dot)
            THEN appended
            ELSE unchanged

\* /tag/foo/ seen from node/foo.html: pathlib drops the trailing slash
\* before the test for it, and the extension is appended
C3_TrailingSlash ==
    /\ Called
    /\ md = <<Slash, "tag", Slash, "foo", Slash>>
    /\ current_dir = NodePage(<<"foo">>)
    /\ out = Returned(<<Dot, Dot, Slash, "tag", Slash, "foo", Dot, "html">>)

\* C4: a target equal to the page's directory resolves, without raising,
\* to a reference that climbs nowhere.
C4_SameDirectory ==
    (Called /\ IsAbsolute(md) /\ Segments(md) = DirSegments(current_dir)) =>
        /\ ~out.raised
        /\ \A i \in 1..Len(Segments(out.val)) : Segments(out.val)[i] # <<Dot, Dot>>

\* /node seen from node/foo.html: nothing is left to join, and
\* os.path.join() raises TypeError
C4_Raises ==
    /\ Called
    /\ md = <<Slash, "node">>
    /\ current_dir = NodePage(<<"foo">>)
    /\ out = Raised

----------------------------------------------------------------------------
(* What the graph claims speak of *)

\* the graph exists: Rete.__init__ has returned
Constructed == pc \in {"built", "ready", "answered", "done", "crashed"}

\* the ids of the included notes that carry a tag
Carriers(tag) == {nodes[i].id : i \in {j \in 1..Len(nodes) : tag \in nodes[j].tags}}

\* the tags carried by at least one included note
CarriedTags == UNION {nodes[i].tags : i \in 1..Len(nodes)}

\* no note has had tags stripped
Unstripped == \A i \in 1..Len(nodes) : nodes[i].tags = InferTags(nodes[i].content)

\* C5: right after construction the tag index holds, for each tag carried by
\* an included note, exactly the ids of the included notes carrying it, and
\* nothing else: no empty entry, no tag twice, no note the filters exclude.
C5_TagIndex ==
    pc = "built" =>
        /\ TagKeys(tags) = CarriedTags
        /\ \A i, j \in 1..Len(tags) : tags[i].tag = tags[j].tag => i = j
        /\ \A i \in 1..Len(tags) :
              /\ tags[i].ids # {}
              /\ tags[i].ids = Carriers(tags[i].tag)
        /\ \A i \in 1..Len(nodes) :
              /\ required_tags \subseteq nodes[i].tags
              /\ nodes[i].tags \cap forbidden_tags = {}

C5_Witness ==
    /\ pc = "built"
    /\ required_tags = {x}
    /\ Len(nodes) = 2
    /\ \E i \in 1..Len(tags) : tags[i].tag = x /\ Cardinality(tags[i].ids) = 2
    /\ \E i \in 1..Len(tags) : tags[i].tag = top /\ Cardinality(tags[i].ids) = 1

\* C6: right after construction top_node is None exactly when no included
\* note carries "top", and is otherwise the smallest id among the notes
\* carrying it, whatever the order the notes were inserted in.
C6_TopNode ==
    pc = "built" =>
        IF Carriers(top) = {}
        THEN top_node = None
        ELSE /\ top_node \in Carriers(top)
             /\ \A n \in Carriers(top) : n = top_node \/ LexLess(top_node, n)

C6_Witness ==
    /\ pc = "built"
    /\ Len(nodes) = 2
    /\ nodes[1].id = <<"b">>
    /\ nodes[2].id = <<"a">>
    /\ top \in nodes[1].tags
    /\ top \in nodes[2].tags
    /\ top_node = <<"a">>

\* the by-frequency section of a tag index: what follows its heading
ByFrequency(text) ==
    LET at == CHOOSE i \in 1..Len(text) : text[i] = Text("## By frequency")
    IN  SubSeq(text, at + 1, Len(text))

\* C7: in the by-frequency section of tag_index() every known tag appears
\* once, followed by the number of notes it is indexed under (which, while
\* no tags were stripped, is the number of notes carrying it); a tag on more
\* notes comes before a tag on fewer, and of two tags on equally many notes
\* the one whose greatest note id is greater comes first.
C7_ByFrequency ==
    (pc = "answered" /\ ret.op = "tag_index") =>
        LET section == ByFrequency(ret.val)
            entry(k) == section[2 * k - 1]
            count(k) == section[2 * k].n
            known == TagKeys(tags)
            n == Cardinality(known)
        IN  /\ Len(section) = 2 * n
            /\ \A t \in known : \E k \in 1..n : entry(k) = TagTok(t)
            /\ \A k \in 1..n :
                  /\ entry(k).k = "tag"
                  /\ section[2 * k] = SmallCount(Cardinality(IdsOf(tags, entry(k).label)))
                  /\ Unstripped => count(k) = Cardinality(Carriers(entry(k).label))
            /\ \A k, l \in 1..n :
                  LET ids(m) == IdsOf(tags, entry(m).label)
                  IN  /\ Cardinality(ids(l)) > Cardinality(ids(k)) => l < k
                      /\ (/\ Cardinality(ids(l)) = Cardinality(ids(k))
                          /\ LexLess(MaxOf(ids(k)), MaxOf(ids(l)))) => l < k

C7_Witness ==
    /\ pc = "answered"
    /\ ret.op = "tag_index"
    /\ Unstripped
    /\ Len(tags) = 2
    /\ tags[1].tag = top
    /\ tags[1].ids = {<<"a">>}
    /\ tags[2].ids = {<<"b">>}
    /\ ByFrequency(ret.val) = <<TagTok(x), SmallCount(1), TagTok(top), SmallCount(1)>>

\* the pages of the claim: one per note, one per known tag, the tag index
\* if there is a tag, the home page, and the listing of all notes
NotePages == {NodePage(n) : n \in Keys(nodes)}
TagPages == {TagPage(t) : t \in TagKeys(tags)}
TagsPages == IF tags # <<>> THEN {TagsPage} ELSE {}

\* C8, as claimed: an export that runs to its end has written node/<id>.html
\* for every note, all.html always, tag/<t>.html for every known tag,
\* tags.html if and only if there is a tag, and index.html.
C8_PagesAsClaimed ==
    pc = "done" =>
        DOMAIN pages = NotePages \cup {AllPage} \cup TagPages \cup TagsPages
                           \cup {IndexPage}

\* C8, amended: all.html is written if and only if there is a note; an
\* export that link resolution aborts has written some of these pages only.
PagesOfExport ==
    NotePages \cup (IF nodes # <<>> THEN {AllPage} ELSE {}) \cup TagPages
        \cup TagsPages \cup {IndexPage}

C8_Pages ==
    /\ pc = "done" => DOMAIN pages = PagesOfExport
    /\ pc = "crashed" => (DOMAIN pages \subseteq PagesOfExport /\ DOMAIN pages # PagesOfExport)
    /\ pc \notin {"done", "crashed"} => DOMAIN pages = {}

C8_Witness ==
    /\ pc = "done"
    /\ nodes = <<>>
    /\ DOMAIN pages = {IndexPage}

\* the labels of the links of the navigation bar of a page: the links before
\* the rule that ends the bar
HasRule(text) == \E i \in 1..Len(text) : text[i] = Text("---")

BarLabels(text) ==
    IF ~HasRule(text) THEN {}
    ELSE LET rule == CHOOSE i \in 1..Len(text) :
                        /\ text[i] = Text("---")
                        /\ \A j \in 1..(i - 1) : text[j] # Text("---")
         IN  {text[i].label : i \in {j \in 1..(rule - 1) : text[j].k = "link"}}

\* C9: the navigation bar of every exported page holds the links top and
\* all exactly when the graph has a note and the link tags exactly when it
\* has a tag, and is empty when it has neither; the home page of a graph
\* without notes is the no-nodes text of all_nodes() and nothing else.
C9_NavigationBar ==
    \A p \in DOMAIN pages :
        LET labels == BarLabels(pages[p].md)
        IN  /\ labels = (IF nodes # <<>> THEN {<<"top">>, <<"all">>} ELSE {})
                          \cup (IF tags # <<>> THEN {<<"tags">>} ELSE {})
            /\ (nodes = <<>> /\ tags = <<>>) => ~HasRule(pages[p].md)
            /\ (nodes = <<>> /\ p = IndexPage) => pages[p].md = NoNodes

C9_Witness ==
    /\ pc = "done"
    /\ nodes = <<>>
    /\ tags = <<>>
    /\ pages[IndexPage].md = NoNodes

\* C10: once the graph is constructed its tag index and top_node never
\* change; export_as_website, top, tag, tag_index and all_nodes change
\* nothing of the graph; strip_tags(T) takes exactly the tags of T from the
\* tag set of one note and changes nothing else.
C10_Frame ==
    [][Constructed =>
          /\ tags' = tags
          /\ top_node' = top_node
          /\ ret'.op \in {"export_as_website", "top", "tag", "tag_index", "all_nodes"}
                => /\ nodes' = nodes
                   /\ title' = title
                   /\ style' = style
          /\ ret'.op = "strip_tags"
                => /\ title' = title
                   /\ style' = style
                   /\ \E i \in 1..Len(nodes) :
                         nodes' = [nodes EXCEPT ![i].tags = @ \ ret'.arg]
      ]_vars

\* a note stripped of x is still listed under x
C10_Witness ==
    /\ pc = "answered"
    /\ ret.op = "tag"
    /\ ret.arg = {x}
    /\ \E i \in 1..Len(nodes) :
          /\ x \notin nodes[i].tags
          /\ \E k \in 1..Len(ret.val) : ret.val[k] = Small(nodes[i].id)

====
